---- MODULE Spec2Model ----
(***************************************************************************)
(* A model of the Acrosure JS SDK core: the request layer `api` and the    *)
(* stateful ApplicationManager (src/src/ApplicationManager.js).            *)
(*                                                                         *)
(* JavaScript values are named by strings.  Primitives are "undefined",    *)
(* "null", "" and the id/status/query strings; objects are the names in    *)
(* DOMAIN Heap and Prop(v, f) is the property read v.f.                     *)
(***************************************************************************)
EXTENDS Integers, Sequences, FiniteSets, TLC

\* ------------------------------------------------------------------ bounds
\* remote calls that may be in flight on one manager at the same time
MaxInFlight == 2
\* remote calls issued in one run
MaxCalls == 2

\* ------------------------------------------------------------ JS values
Undefined == "undefined"
Null == "null"

\* the values `if (v)` / `!v` treat as false
Falsy == {Undefined, Null, ""}

Truthy(v) == v \notin Falsy

\* The objects a run can meet: response bodies, payment payloads, and the
\* values a transport can fail with.
Heap ==
  [ body_A_s1  |-> [id |-> "A", status |-> "s1"],
    body_B_s2  |-> [id |-> "B", status |-> "s2"],
    body_blank |-> [id |-> "", status |-> ""],
    hash_1     |-> [payment_url |-> "https://pay.example/x",
                    amount |-> "100", ref |-> "R1"],
    hash_2     |-> [ref |-> "R2", payment_url |-> "https://pay.example/y",
                    amount |-> "250"],
    ApiNoResponse    |-> [message |-> "no response"],
    CreateNoResponse |-> [message |-> "no response"],
    NoDocument       |-> [message |-> "no document defined"],
    ReferenceError   |-> [message |-> "document is not defined"],
    TypeError_message     |-> [message |-> "Cannot read property 'message' of null"],
    TypeError_status      |-> [message |-> "Cannot read property 'status' of null"],
    TypeError_payment_url |-> [message |-> "Cannot read property 'payment_url' of null"],
    NetworkError |-> [message |-> "Network request failed"],
    W_data       |-> [response |-> "R_data"],
    R_data       |-> [data |-> "D_invalid_step"],
    D_invalid_step |-> [code |-> "INVALID_STEP"],
    W_nodata     |-> [response |-> "R_nodata"],
    R_nodata     |-> [statusText |-> "Bad Gateway"],
    W_blankdata  |-> [response |-> "R_blankdata"],
    R_blankdata  |-> [data |-> ""],
    W_plain      |-> [code |-> "X"],
    W_msg_data   |-> [message |-> "Request failed", response |-> "R_data"],
    W_blankmsg   |-> [message |-> "", response |-> "R_data"] ]

\* v.f for a value that is not null or undefined
Prop(v, f) ==
  IF v \in DOMAIN Heap
    THEN IF f \in DOMAIN Heap[v] THEN Heap[v][f] ELSE Undefined
    ELSE Undefined

\* Object.keys(v) in iteration order
Keys(v) ==
  IF v = "hash_1" THEN <<"payment_url", "amount", "ref">>
  ELSE IF v = "hash_2" THEN <<"ref", "payment_url", "amount">>
  ELSE IF v \in {"body_A_s1", "body_B_s2", "body_blank"} THEN <<"id", "status">>
  ELSE <<>>

\* a completion: `return val` (ok) or `throw val`
Return(v) == [ok |-> TRUE, val |-> v]
Throw(v) == [ok |-> FALSE, val |-> v]

\* ------------------------------------------------------------ request layer
API_URL == "https://api.acrosure.com"

Paths ==
  { "/applications/get", "/applications/list", "/applications/create",
    "/applications/update", "/applications/get-packages",
    "/applications/get-package", "/applications/select-package",
    "/applications/submit", "/applications/confirm",
    "/payments/2c2p/get-hash" }

\* the headers of the request: Authorization only with a token
Headers(token) ==
  IF Truthy(token) THEN {"Content-Type", "Authorization"} ELSE {"Content-Type"}

\* body ? JSON.stringify(body) : '{}'
RequestBody(body) == IF Truthy(body) THEN body ELSE "{}"

\* (variant) the response is raised even when it holds data
Normalize_raisesResponse(err) ==
  IF err \in {Undefined, Null} THEN "TypeError_message"
  ELSE IF Truthy(Prop(err, "message")) THEN err
  ELSE IF Truthy(err) /\ Truthy(Prop(err, "response")) THEN Prop(err, "response")
  ELSE err

\* the catch block of api: what is raised for a caught value
Normalize(err) ==
  IF err \in {Undefined, Null} THEN "TypeError_message"
  ELSE IF Truthy(Prop(err, "message")) THEN err
  ELSE IF Truthy(err) /\ Truthy(Prop(err, "response"))
    THEN IF Truthy(Prop(Prop(err, "response"), "data"))
           THEN Prop(Prop(err, "response"), "data")
           ELSE Prop(err, "response")
  ELSE err

\* A transport outcome is [kind, v]:
\*   "noresp"   fetch resolves with the falsy value v
\*   "json"     fetch resolves with a response whose json() resolves with v
\*   "jsonfail" fetch resolves with a response whose json() rejects with v
\*   "reject"   fetch rejects with v
Outcome(kind, v) == [kind |-> kind, v |-> v]

\* (variant) the missing response itself is thrown, not a new Error
api_throwsResponse(o) ==
  CASE o.kind = "json" -> Return(o.v)
    [] OTHER -> Throw(Normalize(o.v))

\* the completion of api for a transport outcome
api(o) ==
  CASE o.kind = "noresp" -> Throw(Normalize("ApiNoResponse"))
    [] o.kind = "json" -> Return(o.v)
    [] OTHER -> Throw(Normalize(o.v))

\* the values a transport can fail with
Failures ==
  { Null, Undefined, "NetworkError", "W_data", "W_nodata", "W_blankdata",
    "W_plain", "W_msg_data", "W_blankmsg" }

\* the bodies an endpoint can answer with
Bodies(path) ==
  IF path = "/payments/2c2p/get-hash"
    THEN {Null, "hash_1", "hash_2"}
    ELSE {Null, "body_A_s1", "body_B_s2", "body_blank"}

\* every outcome of the transport for a call to path
Outcomes(path) ==
  {Outcome("noresp", v) : v \in {Undefined, Null}}
    \cup {Outcome("json", v) : v \in Bodies(path)}
    \cup {Outcome("jsonfail", v) : v \in Failures}
    \cup {Outcome("reject", v) : v \in Failures}

\* ------------------------------------------------------------------ state
VARIABLES
  id,        \* this.id
  status,    \* this.status
  calls,     \* the remote calls in flight, oldest first
  issued,    \* how many remote calls this run has issued
  mirrored,  \* history: the status of the latest response a mirroring operation took a status from
  last,      \* history: the step just taken
  req        \* the request layer on its own: one api call

vars == <<id, status, calls, issued, mirrored, last, req>>

\* a payload without an application_id key
NoKey == "<no key>"

Ids == {"A", "B"}
IdArgs == {Undefined} \cup Ids
Queries == {Undefined, "q"}

NoForm == [method |-> "", action |-> "", fields |-> <<>>]

Ops ==
  { "get", "list", "create", "update", "getPackages", "getPackage",
    "selectPackage", "submit", "confirm", "get2C2PHash", "get2C2PForm",
    "redirectToPayment" }

\* the endpoint an operation calls
Path(op) ==
  CASE op = "get" -> "/applications/get"
    [] op = "list" -> "/applications/list"
    [] op = "create" -> "/applications/create"
    [] op = "update" -> "/applications/update"
    [] op = "getPackages" -> "/applications/get-packages"
    [] op = "getPackage" -> "/applications/get-package"
    [] op = "selectPackage" -> "/applications/select-package"
    [] op = "submit" -> "/applications/submit"
    [] op = "confirm" -> "/applications/confirm"
    [] OTHER -> "/payments/2c2p/get-hash"

\* the transport outcomes the manager is run against
ManagerOutcomes(path) ==
  {Outcome("noresp", Undefined)}
    \cup {Outcome("json", v) : v \in Bodies(path)}
    \cup {Outcome("reject", v) : v \in {"NetworkError", "W_data"}}

\* the request layer before a call
ReqIdle ==
  [ pc |-> "idle", path |-> "", headers |-> {}, sent |-> "", cause |-> "-",
    caught |-> Undefined, ok |-> TRUE, val |-> Undefined ]

\* the record of a step: what ran (ev, op, arg, payload), whether the call ran
\* alone, overlapped another operation or was overtaken by a younger call
\* (conc), whether its invocation adopted a new id (adopted), whether the
\* step left id and status as they were (idKept, statusKept), and how a
\* resumed call ended (cause, raw, ok, val, doc, form, submitted)
Label(ev, op, arg, payload, conc) ==
  [ ev |-> ev, op |-> op, arg |-> arg, payload |-> payload, conc |-> conc,
    adopted |-> FALSE, idKept |-> TRUE, statusKept |-> TRUE,
    cause |-> "-", raw |-> Undefined, ok |-> TRUE, val |-> Undefined,
    doc |-> "-", form |-> NoForm, submitted |-> FALSE ]

NoPayload == [application_id |-> NoKey, args |-> Undefined]

Init ==
  /\ id \in IdArgs
  /\ status = Null
  /\ calls = <<>>
  /\ issued = 0
  /\ mirrored = Null
  /\ last = Label("new", "constructor", id, NoPayload, "alone")
  /\ req = ReqIdle

\* ---------------------------------------------------------- history helpers
\* another operation of the manager ran while these calls were in flight
Overlap(cs) ==
  [j \in DOMAIN cs |->
     IF cs[j].conc = "alone" THEN [cs[j] EXCEPT !.conc = "overlapped"] ELSE cs[j]]

\* the calls left in flight when call i resolves: the older ones were overtaken
Remaining(cs, i) ==
  LET marked == [j \in DOMAIN cs |->
                   IF j < i THEN [cs[j] EXCEPT !.conc = "overtaken"] ELSE cs[j]]
  IN SubSeq(marked, 1, i - 1) \o SubSeq(marked, i + 1, Len(marked))

\* ------------------------------------------------------------ the manager
\* (variant) the payloads of the calls in flight follow the id
setId_rewritesPayloads(x) ==
  /\ id' = x
  /\ calls' = [j \in DOMAIN calls |->
                IF calls[j].payload.application_id = NoKey
                  THEN Overlap(calls)[j]
                  ELSE [Overlap(calls)[j] EXCEPT !.payload.application_id = x]]
  /\ last' = [Label("setId", "setId", x, NoPayload, "alone")
                EXCEPT !.idKept = (x = id)]
  /\ UNCHANGED <<status, issued, mirrored, req>>

setId(x) ==
  /\ id' = x
  /\ calls' = Overlap(calls)
  /\ last' = [Label("setId", "setId", x, NoPayload, "alone")
                EXCEPT !.idKept = (x = id)]
  /\ UNCHANGED <<status, issued, mirrored, req>>

\* if (given) this.id = given
AdoptId(cur, given) == IF Truthy(given) THEN given ELSE cur

\* (variant) the status of the response is assigned whatever it holds
MirrorStatus_overwrites(cur, resp) == Prop(resp, "status")

\* (variant) a status once set is kept
MirrorStatus_firstWins(cur, resp) ==
  IF Truthy(Prop(resp, "status")) /\ ~Truthy(cur) THEN Prop(resp, "status") ELSE cur

\* if (resp.status) this.status = resp.status
MirrorStatus(cur, resp) ==
  IF Truthy(Prop(resp, "status")) THEN Prop(resp, "status") ELSE cur

\* if (resp.id) this.id = resp.id
MirrorId(cur, resp) ==
  IF Truthy(Prop(resp, "id")) THEN Prop(resp, "id") ELSE cur

\* the synchronous part of a remote operation, up to its await: the id it
\* leaves and the payload it hands to callAPI
Issue(op, arg, newId, payload) ==
  /\ Len(calls) < MaxInFlight
  /\ issued < MaxCalls
  /\ id' = newId
  /\ LET conc == IF calls = <<>> THEN "alone" ELSE "overlapped"
     IN /\ calls' = Append(Overlap(calls),
                           [op |-> op, arg |-> arg, payload |-> payload,
                            conc |-> conc, adopted |-> (newId # id)])
        /\ last' = [Label("invoke", op, arg, payload, conc)
                     EXCEPT !.adopted = (newId # id), !.idKept = (newId = id)]
  /\ issued' = issued + 1
  /\ UNCHANGED <<status, mirrored, req>>

IdPayload(cur, rest) == [application_id |-> cur, args |-> rest]

\* (variant) the given id is sent but not adopted
get_noAdopt(x) ==
  Issue("get", x, id, IdPayload(AdoptId(id, x), Undefined))

get(x) == Issue("get", x, AdoptId(id, x), IdPayload(AdoptId(id, x), Undefined))

\* (variant) the current id is added to the query
list_sendsId(q) == Issue("list", q, id, IdPayload(id, q))

list(q) == Issue("list", q, id, [application_id |-> NoKey, args |-> q])

create(fields) == Issue("create", fields, id, [application_id |-> NoKey, args |-> fields])

\* (variant) the payload is built before the id is adopted
update_stalePayload(x, fields) ==
  Issue("update", x, AdoptId(id, x), IdPayload(id, fields))

update(x, fields) ==
  Issue("update", x, AdoptId(id, x), IdPayload(AdoptId(id, x), fields))

getPackages == Issue("getPackages", Undefined, id, IdPayload(id, Undefined))

getPackage == Issue("getPackage", Undefined, id, IdPayload(id, Undefined))

selectPackage(code) == Issue("selectPackage", code, id, IdPayload(id, code))

submit == Issue("submit", Undefined, id, IdPayload(id, Undefined))

confirm == Issue("confirm", Undefined, id, IdPayload(id, Undefined))

get2C2PHash(url) == Issue("get2C2PHash", url, id, IdPayload(id, url))

get2C2PForm(url) == Issue("get2C2PForm", url, id, IdPayload(id, url))

redirectToPayment(url) == Issue("redirectToPayment", url, id, IdPayload(id, url))

\* ------------------------------------------------ after the await resolves
\* what a continuation leaves: the manager's fields and how the operation ends
Effect(idv, stv, res, form, submitted) ==
  [ id |-> idv, status |-> stv, ok |-> res.ok, val |-> res.val,
    form |-> form, submitted |-> submitted ]

\* (variant) a null response is returned, its status is not read
MirrorThen_nullSafe(idv, stv, r) ==
  IF ~r.ok THEN Effect(idv, stv, Throw(r.val), NoForm, FALSE)
  ELSE Effect(idv, MirrorStatus(stv, r.val), Return(r.val), NoForm, FALSE)

\* `if (resp.status) this.status = resp.status; return resp` with the catch
\* that rethrows: get, update, submit, confirm
MirrorThen(idv, stv, r) ==
  IF ~r.ok THEN Effect(idv, stv, Throw(r.val), NoForm, FALSE)
  ELSE IF r.val \in {Null, Undefined}
    THEN Effect(idv, stv, Throw("TypeError_status"), NoForm, FALSE)
  ELSE Effect(idv, MirrorStatus(stv, r.val), Return(r.val), NoForm, FALSE)

\* `return resp` with the catch that rethrows: list, getPackages, getPackage,
\* selectPackage, get2C2PHash
PassThen(idv, stv, r) == Effect(idv, stv, r, NoForm, FALSE)

\* (variant) get takes the id of its response too
getThen_mirrorsId(idv, stv, r) ==
  IF r.ok /\ r.val \notin {Null, Undefined}
    THEN Effect(MirrorId(idv, r.val), MirrorStatus(stv, r.val), Return(r.val),
                NoForm, FALSE)
    ELSE MirrorThen(idv, stv, r)

getThen(idv, stv, r) == MirrorThen(idv, stv, r)

listThen(idv, stv, r) == PassThen(idv, stv, r)

\* (variant) create without its guard: an empty response is dereferenced
\* as the other mirroring operations do
createThen_noGuard(idv, stv, r) ==
  IF ~r.ok THEN Effect(idv, stv, Throw(r.val), NoForm, FALSE)
  ELSE IF r.val \in {Null, Undefined}
    THEN Effect(idv, stv, Throw("TypeError_status"), NoForm, FALSE)
  ELSE Effect(MirrorId(idv, r.val), MirrorStatus(stv, r.val), Return(r.val),
              NoForm, FALSE)

\* (variant) the id of the response is not adopted
createThen_noId(idv, stv, r) ==
  IF ~r.ok THEN Effect(idv, stv, Throw(r.val), NoForm, FALSE)
  ELSE IF ~Truthy(r.val)
    THEN Effect(idv, stv, Throw("CreateNoResponse"), NoForm, FALSE)
  ELSE Effect(idv, MirrorStatus(stv, r.val), Return(r.val), NoForm, FALSE)

createThen(idv, stv, r) ==
  IF ~r.ok THEN Effect(idv, stv, Throw(r.val), NoForm, FALSE)
  ELSE IF ~Truthy(r.val)
    THEN Effect(idv, stv, Throw("CreateNoResponse"), NoForm, FALSE)
  ELSE Effect(MirrorId(idv, r.val), MirrorStatus(stv, r.val), Return(r.val),
              NoForm, FALSE)

updateThen(idv, stv, r) == MirrorThen(idv, stv, r)

getPackagesThen(idv, stv, r) == PassThen(idv, stv, r)

\* (variant) getPackage mirrors the status and the id of its response
getPackageThen_mirrors(idv, stv, r) ==
  IF r.ok /\ r.val \notin {Null, Undefined}
    THEN Effect(MirrorId(idv, r.val), MirrorStatus(stv, r.val), Return(r.val),
                NoForm, FALSE)
    ELSE PassThen(idv, stv, r)

getPackageThen(idv, stv, r) == PassThen(idv, stv, r)

\* (variant) selectPackage mirrors the status as its siblings do
selectPackageThen_mirrors(idv, stv, r) == MirrorThen(idv, stv, r)

selectPackageThen(idv, stv, r) == PassThen(idv, stv, r)

submitThen(idv, stv, r) == MirrorThen(idv, stv, r)

confirmThen(idv, stv, r) == MirrorThen(idv, stv, r)

get2C2PHashThen(idv, stv, r) == PassThen(idv, stv, r)

\* what the name `document` is bound to where the form is built
Documents == {"undeclared", Undefined, "dom"}

\* one hidden input per key of the payload other than payment_url
\* (variant) every key of the payload becomes a hidden input, the URL too
HiddenInputs_keepsUrl(hashForm) ==
  LET ks == Keys(hashForm)
  IN [n \in 1..Len(ks) |->
        [name |-> ks[n], value |-> Prop(hashForm, ks[n]), type |-> "hidden"]]

HiddenInputs(hashForm) ==
  LET ks == SelectSeq(Keys(hashForm), LAMBDA k : k # "payment_url")
  IN [n \in 1..Len(ks) |->
        [name |-> ks[n], value |-> Prop(hashForm, ks[n]), type |-> "hidden"]]

BuildForm(hashForm) ==
  [ method |-> "POST", action |-> Prop(hashForm, "payment_url"),
    fields |-> HiddenInputs(hashForm) ]

get2C2PFormThen(idv, stv, r, doc) ==
  LET h == get2C2PHashThen(idv, stv, r)
  IN IF ~h.ok THEN Effect(idv, stv, Throw(h.val), NoForm, FALSE)
     ELSE IF doc = "undeclared"
       THEN Effect(idv, stv, Throw("ReferenceError"), NoForm, FALSE)
     ELSE IF ~Truthy(doc)
       THEN Effect(idv, stv, Throw("NoDocument"), NoForm, FALSE)
     ELSE IF h.val \in {Null, Undefined}
       THEN Effect(idv, stv, Throw("TypeError_payment_url"), NoForm, FALSE)
     ELSE Effect(idv, stv, Return("form"), BuildForm(h.val), FALSE)

\* (variant) the submit is attempted whether or not a form was obtained
redirectToPaymentThen_submitsAnyway(idv, stv, r, doc) ==
  LET f == get2C2PFormThen(idv, stv, r, doc)
  IN IF ~f.ok THEN Effect(idv, stv, Throw(f.val), NoForm, TRUE)
     ELSE Effect(idv, stv, Return(Undefined), f.form, TRUE)

redirectToPaymentThen(idv, stv, r, doc) ==
  LET f == get2C2PFormThen(idv, stv, r, doc)
  IN IF ~f.ok THEN Effect(idv, stv, Throw(f.val), NoForm, FALSE)
     ELSE Effect(idv, stv, Return(Undefined), f.form, TRUE)

\* the operations that take a status from their response
Mirroring == {"get", "create", "update", "submit", "confirm"}

\* (variant) a call that failed is issued once more before the failure is
\* reported
Settle_retries(i, op, o, doc, eff) ==
  /\ i \in DOMAIN calls
  /\ calls[i].op = op
  /\ o \in ManagerOutcomes(Path(op))
  /\ id' = eff.id
  /\ status' = eff.status
  /\ calls' = IF eff.ok THEN Remaining(calls, i) ELSE calls
  /\ issued' = IF eff.ok THEN issued ELSE issued + 1
  /\ last' = [ Label(IF eff.ok THEN "return" ELSE "throw", op, calls[i].arg,
                     calls[i].payload, calls[i].conc)
               EXCEPT !.cause = o.kind, !.raw = api(o).val,
                      !.ok = eff.ok, !.val = eff.val ]
  /\ UNCHANGED <<mirrored, req>>

\* call i resumes after its await with transport outcome o and ends as eff
Settle(i, op, o, doc, eff) ==
  /\ i \in DOMAIN calls
  /\ calls[i].op = op
  /\ o \in ManagerOutcomes(Path(op))
  /\ id' = eff.id
  /\ status' = eff.status
  /\ calls' = Remaining(calls, i)
  /\ last' = [ Label(IF eff.ok THEN "return" ELSE "throw", op, calls[i].arg,
                     calls[i].payload, calls[i].conc)
               EXCEPT !.adopted = calls[i].adopted,
                      !.idKept = (eff.id = id), !.statusKept = (eff.status = status),
                      !.cause = o.kind, !.raw = api(o).val,
                      !.ok = eff.ok, !.val = eff.val,
                      !.doc = doc, !.form = eff.form,
                      !.submitted = eff.submitted ]
  /\ mirrored' =
       IF op \in Mirroring /\ api(o).ok /\ Truthy(api(o).val)
            /\ Truthy(Prop(api(o).val, "status"))
         THEN Prop(api(o).val, "status")
         ELSE mirrored
  /\ UNCHANGED <<issued, req>>

getResume(i, o) == Settle(i, "get", o, "-", getThen(id, status, api(o)))

listResume(i, o) == Settle(i, "list", o, "-", listThen(id, status, api(o)))

createResume(i, o) == Settle(i, "create", o, "-", createThen(id, status, api(o)))

updateResume(i, o) == Settle(i, "update", o, "-", updateThen(id, status, api(o)))

getPackagesResume(i, o) ==
  Settle(i, "getPackages", o, "-", getPackagesThen(id, status, api(o)))

getPackageResume(i, o) ==
  Settle(i, "getPackage", o, "-", getPackageThen(id, status, api(o)))

selectPackageResume(i, o) ==
  Settle(i, "selectPackage", o, "-", selectPackageThen(id, status, api(o)))

submitResume(i, o) == Settle(i, "submit", o, "-", submitThen(id, status, api(o)))

confirmResume(i, o) == Settle(i, "confirm", o, "-", confirmThen(id, status, api(o)))

get2C2PHashResume(i, o) ==
  Settle(i, "get2C2PHash", o, "-", get2C2PHashThen(id, status, api(o)))

get2C2PFormResume(i, o, doc) ==
  Settle(i, "get2C2PForm", o, doc, get2C2PFormThen(id, status, api(o), doc))

redirectToPaymentResume(i, o, doc) ==
  Settle(i, "redirectToPayment", o, doc,
         redirectToPaymentThen(id, status, api(o), doc))

AllOutcomes == UNION {ManagerOutcomes(p) : p \in Paths}

Next ==
  \/ \E x \in IdArgs : setId(x)
  \/ \E x \in IdArgs : get(x)
  \/ \E q \in Queries : list(q)
  \/ create("P")
  \/ \E x \in IdArgs : update(x, "F")
  \/ getPackages
  \/ getPackage
  \/ selectPackage("pkg")
  \/ submit
  \/ confirm
  \/ get2C2PHash("url")
  \/ get2C2PForm("url")
  \/ redirectToPayment("url")
  \/ \E i \in 1..MaxInFlight, o \in AllOutcomes :
       \/ getResume(i, o)
       \/ listResume(i, o)
       \/ createResume(i, o)
       \/ updateResume(i, o)
       \/ getPackagesResume(i, o)
       \/ getPackageResume(i, o)
       \/ selectPackageResume(i, o)
       \/ submitResume(i, o)
       \/ confirmResume(i, o)
       \/ get2C2PHashResume(i, o)
       \/ \E doc \in Documents :
            \/ get2C2PFormResume(i, o, doc)
            \/ redirectToPaymentResume(i, o, doc)

Spec == Init /\ [][Next]_vars

\* ------------------------------------------- the request layer on its own
Tokens == {Undefined, "tok"}
RawBodies == {Undefined, "payload"}

\* api up to `await fetch(...)`
apiFetch(path, body, token) ==
  /\ req.pc = "idle"
  /\ req' = [ReqIdle EXCEPT !.pc = "fetch", !.path = path,
                            !.headers = Headers(token), !.sent = RequestBody(body)]
  /\ UNCHANGED <<id, status, calls, issued, mirrored, last>>

\* the value the catch block of api receives, if it runs
Caught(o) ==
  CASE o.kind = "noresp" -> "ApiNoResponse"
    [] o.kind = "json" -> "-"
    [] OTHER -> o.v

\* api from the settling of fetch to its return or throw
apiSettle(o) ==
  /\ req.pc = "fetch"
  /\ o \in Outcomes(req.path)
  /\ req' = [req EXCEPT !.pc = "done", !.cause = o.kind, !.caught = Caught(o),
                        !.ok = api(o).ok, !.val = api(o).val]
  /\ UNCHANGED <<id, status, calls, issued, mirrored, last>>

AllTransportOutcomes == UNION {Outcomes(p) : p \in Paths}

InitApi ==
  /\ id = Undefined
  /\ status = Null
  /\ calls = <<>>
  /\ issued = 0
  /\ mirrored = Null
  /\ last = Label("new", "constructor", id, NoPayload, "alone")
  /\ req = ReqIdle

NextApi ==
  \/ \E path \in Paths, body \in RawBodies, token \in Tokens :
       apiFetch(path, body, token)
  \/ \E o \in AllTransportOutcomes : apiSettle(o)

SpecApi == InitApi /\ [][NextApi]_vars

\* ------------------------------------------------------------------ claims
\* the request layer has failed: its catch block received req.caught
ApiFailed == req.pc = "done" /\ req.cause # "json"

\* C9: when the caught failure is an object without a message whose
\* response.data is a (non-empty) body D, api raises exactly D, not the
\* wrapper and not the response.
C9_RaisesNestedData ==
  ( /\ ApiFailed
    /\ req.caught \in DOMAIN Heap
    /\ ~Truthy(Prop(req.caught, "message"))
    /\ Truthy(Prop(Prop(req.caught, "response"), "data")) )
  => /\ ~req.ok
     /\ req.val = Prop(Prop(req.caught, "response"), "data")
     /\ req.val # req.caught
     /\ req.val # Prop(req.caught, "response")

C9_Witness ==
  /\ ApiFailed
  /\ req.caught = "W_data"
  /\ ~req.ok
  /\ req.val = "D_invalid_step"

\* what the documented precedence raises for a caught value c
Precedence(c) ==
  IF Truthy(Prop(c, "message")) THEN c
  ELSE IF Truthy(Prop(Prop(c, "response"), "data"))
    THEN Prop(Prop(c, "response"), "data")
  ELSE IF Truthy(Prop(c, "response")) THEN Prop(c, "response")
  ELSE c

\* C10: a failed call raises exactly one error, chosen by the precedence
\* message, then response.data, then response, then the caught value itself.
C10_Precedence ==
  ApiFailed => /\ ~req.ok
               /\ req.val = Precedence(req.caught)

\* ---- the manager
Resumed == last.ev \in {"return", "throw"}

\* the operations whose payload carries the current id
IdScoped ==
  { "get", "update", "getPackages", "getPackage", "selectPackage", "submit",
    "confirm", "get2C2PHash", "get2C2PForm", "redirectToPayment" }

\* C1 as written: an operation that meets no response fails with the
\* 'no response' error and has changed neither id nor status, at its
\* invocation or when it resumed.
C1_Original ==
  (Resumed /\ last.cause = "noresp")
  => /\ ~last.ok
     /\ last.val = "ApiNoResponse"
     /\ ~last.adopted
     /\ last.idKept
     /\ last.statusKept

\* C1, amended: an operation that meets no response fails with the
\* 'no response' error and leaves status and id as they were, except that
\* get(id) and update({application_id}) given a non-empty id have adopted it
\* before the call, and it stays adopted.
C1_NoResponse ==
  (Resumed /\ last.cause = "noresp")
  => /\ ~last.ok
     /\ last.val = "ApiNoResponse"
     /\ Prop(last.val, "message") = "no response"
     /\ last.idKept
     /\ last.statusKept
     /\ last.adopted => /\ last.op \in {"get", "update"}
                        /\ Truthy(last.arg)
                        /\ last.payload.application_id = last.arg
     /\ (last.conc = "alone" /\ last.op \in IdScoped)
          => id = last.payload.application_id

C1_Witness ==
  /\ Resumed
  /\ last.cause = "noresp"
  /\ last.op = "update"
  /\ last.adopted
  /\ last.conc = "alone"
  /\ id = "B"
  /\ status = "s1"

\* C2: get(X) with a non-empty X sends application_id = X to
\* /applications/get and leaves the current id X, at its invocation and,
\* when no other operation ran meanwhile, after it has succeeded or failed;
\* resuming get never writes the id.
C2_GetAdoptsId ==
  (last.op = "get" /\ Truthy(last.arg))
  => /\ last.payload.application_id = last.arg
     /\ Path(last.op) = "/applications/get"
     /\ last.ev = "invoke" => id = last.arg
     /\ Resumed => last.idKept
     /\ (Resumed /\ last.conc = "alone") => id = last.arg

C2_Witness ==
  /\ last.op = "get"
  /\ last.ev = "throw"
  /\ last.arg = "B"
  /\ last.adopted
  /\ last.conc = "alone"
  /\ id = "B"

\* C3: update with a non-empty application_id B adopts B before the call is
\* issued, so the payload carries B, and every id-scoped call is issued with
\* the id that is current at that moment.
C3_UpdateAdoptsFirst ==
  /\ (last.op = "update" /\ Truthy(last.arg))
       => /\ last.payload.application_id = last.arg
          /\ last.ev = "invoke" => id = last.arg
  /\ (last.ev = "invoke" /\ last.op \in IdScoped)
       => last.payload.application_id = id

C3_Witness ==
  /\ last.ev = "invoke"
  /\ last.op = "update"
  /\ last.arg = "B"
  /\ last.adopted
  /\ last.payload.application_id = "B"
  /\ id = "B"

\* C4: when create returns a response with a non-empty id I and a non-empty
\* status S, the manager's id is I and its status is S; the create payload
\* has no application_id.
C4_CreateMirrors ==
  last.op = "create"
  => /\ last.payload.application_id = NoKey
     /\ ( /\ last.ev = "return"
          /\ Truthy(Prop(last.val, "id"))
          /\ Truthy(Prop(last.val, "status")) )
        => /\ id = Prop(last.val, "id")
           /\ status = Prop(last.val, "status")

C4_Witness ==
  /\ last.op = "create"
  /\ last.ev = "return"
  /\ last.val = "body_B_s2"
  /\ ~last.idKept
  /\ ~last.statusKept
  /\ id = "B"
  /\ status = "s2"

\* the step took a status from the response of a mirroring operation
TookStatus ==
  /\ last.ev = "return"
  /\ last.op \in Mirroring
  /\ Truthy(Prop(last.raw, "status"))

\* C5: status is its construction value or the status field of the latest
\* successful get, create, update, submit or confirm response that had one;
\* no other step changes it.
C5_StatusOnlyMirrored ==
  /\ status = mirrored
  /\ mirrored = Null \/ mirrored \in {Prop(b, "status") : b \in DOMAIN Heap}
  /\ ~TookStatus => last.statusKept
  /\ TookStatus => status = Prop(last.raw, "status")

C5_Witness ==
  /\ status = "s2"
  /\ last.ev = "return"
  /\ last.op = "selectPackage"
  /\ last.raw = "body_A_s1"

\* the id a resumed call carried: the response's for create, the payload's
\* application_id for an id-scoped call
CarriedId ==
  IF last.op = "create" THEN Prop(last.raw, "id")
  ELSE last.payload.application_id

\* the step wrote an id the caller passed
CallerPassedId ==
  \/ last.ev = "setId"
  \/ /\ last.ev = "invoke"
     /\ last.op \in {"get", "update"}
     /\ Truthy(last.arg)
     /\ id = last.arg

\* the step adopted the id of a create response
CreateAdoptedId ==
  /\ last.ev = "return"
  /\ last.op = "create"
  /\ Truthy(Prop(last.raw, "id"))
  /\ id = Prop(last.raw, "id")

\* every id-scoped call is issued with the current id, which is the id the
\* caller passed if one was passed and the id held before otherwise
IssuedWithCurrentId ==
  (last.ev = "invoke" /\ last.op \in IdScoped)
  => /\ last.payload.application_id = id
     /\ (last.op \in {"get", "update"} /\ Truthy(last.arg)) => id = last.arg
     /\ ~(last.op \in {"get", "update"} /\ Truthy(last.arg)) => last.idKept

\* C6 as written: id-scoped calls send the current id, a caller-passed id
\* becomes the current id, and the id changes in no other way.
C6_Original ==
  /\ IssuedWithCurrentId
  /\ ~last.idKept => CallerPassedId

\* C6, amended: id-scoped calls send the current id, a caller-passed id
\* becomes the current id, and the id changes in no other way except that a
\* successful create whose response carries a non-empty id adopts that id.
C6_IdDiscipline ==
  /\ IssuedWithCurrentId
  /\ ~last.idKept => (CallerPassedId \/ CreateAdoptedId)

C6_Witness ==
  /\ last.ev = "invoke"
  /\ last.op = "submit"
  /\ issued = 2
  /\ calls = << [op |-> "submit", arg |-> Undefined,
                 payload |-> [application_id |-> "B", args |-> Undefined],
                 conc |-> "alone", adopted |-> FALSE] >>
  /\ id = "B"

\* two calls were in flight together and both have resolved
BothResolved == Resumed /\ last.conc # "alone" /\ calls = <<>> /\ issued = 2

\* C7 as written: after two concurrent calls have both resolved, the id and
\* status are the ones carried by the call that resolved last.
C7_Original ==
  ( /\ BothResolved
    /\ last.ev = "return"
    /\ last.op \in Mirroring
    /\ Truthy(CarriedId)
    /\ Truthy(Prop(last.raw, "status")) )
  => /\ status = Prop(last.raw, "status")
     /\ id = CarriedId

\* C7, amended: whatever the order of invocation, a mirroring call that
\* resolves with a status overwrites the status and a create that resolves
\* with an id overwrites the id, so the call that resolved last wins those;
\* no other resumption writes the id, and an id passed to get or update is
\* written at invocation, so there the call invoked last wins; a call is
\* issued at once while others are in flight.
C7_LastResolvedWins ==
  /\ TookStatus => status = Prop(last.raw, "status")
  /\ (last.ev = "return" /\ last.op = "create" /\ Truthy(Prop(last.raw, "id")))
       => id = Prop(last.raw, "id")
  /\ (Resumed /\ ~CreateAdoptedId) => last.idKept
  /\ (last.ev = "invoke" /\ last.op \in {"get", "update"} /\ Truthy(last.arg))
       => id = last.arg
  /\ last.ev = "invoke"
       => /\ calls # <<>>
          /\ calls[Len(calls)].op = last.op
          /\ calls[Len(calls)].payload = last.payload

C7_Witness ==
  /\ BothResolved
  /\ last.conc = "overtaken"
  /\ last.ev = "return"
  /\ last.op = "get"
  /\ last.raw = "body_A_s1"
  /\ ~last.statusKept
  /\ status = "s1"
  /\ id = "B"
  /\ last.payload.application_id = "A"

\* C8: list sends the caller's query and nothing of the manager's id,
\* returns the response as it came, and leaves id and status alone.
C8_ListStateless ==
  last.op = "list"
  => /\ last.payload = [application_id |-> NoKey, args |-> last.arg]
     /\ last.idKept
     /\ last.statusKept
     /\ Resumed => (last.ok = (last.cause = "json") /\ last.val = last.raw)

C8_Witness ==
  /\ last.op = "list"
  /\ last.ev = "return"
  /\ last.val = "body_A_s1"
  /\ id = Undefined
  /\ status = Null

\* C11: every invocation of a remote operation issues exactly one request
\* and every request ends its invocation, by a return or by one throw: a
\* failed call is not issued again, and no step issues two.
C11_OneRequestPerInvocation ==
  [][ /\ last'.ev = "invoke"
        => /\ issued' = issued + 1
           /\ Len(calls') = Len(calls) + 1
      /\ last'.ev \in {"return", "throw"}
        => /\ issued' = issued
           /\ Len(calls') = Len(calls) - 1
      /\ last'.ev = "setId"
        => /\ issued' = issued
           /\ Len(calls') = Len(calls) ]_vars

C11_Witness ==
  /\ last.ev = "throw"
  /\ last.op = "redirectToPayment"
  /\ last.cause = "reject"
  /\ issued = 1
  /\ calls = <<>>

\* the operations on the application resource (not the payment handoff)
ResourceOps ==
  { "get", "list", "create", "update", "getPackages", "getPackage",
    "selectPackage", "submit", "confirm" }

\* C12: an operation whose underlying call fails with E fails with exactly
\* E, and a resource operation whose call succeeded fails only as create's
\* 'no response' guard.
C12_ErrorsUnchanged ==
  /\ (Resumed /\ last.cause # "json")
       => /\ ~last.ok
          /\ last.val = last.raw
  /\ (Resumed /\ last.cause = "json" /\ last.op \in ResourceOps /\ ~last.ok)
       => /\ last.op = "create"
          /\ last.val = "CreateNoResponse"

\* the keys of a payload other than k, in the payload's order
RECURSIVE Others(_, _)
Others(ks, k) ==
  IF ks = <<>> THEN <<>>
  ELSE IF ks[1] = k THEN Others(Tail(ks), k)
  ELSE <<ks[1]>> \o Others(Tail(ks), k)

\* C13: the form get2C2PForm returns for a payload posts to the payload's
\* payment_url and holds one hidden input per other key of that payload, in
\* the payload's order, with the key's value; payment_url is no input, and
\* the form is built from the payload this invocation fetched.
C13_FormFromPayload ==
  (last.op = "get2C2PForm" /\ last.ev = "return")
    => LET names == Others(Keys(last.raw), "payment_url")
       IN /\ last.cause = "json"
          /\ last.form.method = "POST"
          /\ last.form.action = Heap[last.raw].payment_url
          /\ Len(last.form.fields) = Len(names)
          /\ \A n \in 1..Len(names) :
                /\ last.form.fields[n].name = names[n]
                /\ last.form.fields[n].value = Heap[last.raw][names[n]]
                /\ last.form.fields[n].type = "hidden"
          /\ \A n \in 1..Len(last.form.fields) :
                last.form.fields[n].name # "payment_url"

C13_Witness ==
  /\ last.op = "get2C2PForm"
  /\ last.ev = "return"
  /\ last.raw = "hash_2"
  /\ issued = 2
  /\ last.form = [ method |-> "POST", action |-> "https://pay.example/y",
                   fields |-> << [name |-> "ref", value |-> "R2",
                                  type |-> "hidden"],
                                 [name |-> "amount", value |-> "250",
                                  type |-> "hidden"] >> ]

\* a context without a rendering environment: `document` is not declared,
\* or is declared and holds nothing
Headless(doc) == doc \in {"undeclared", Undefined}

\* C14: in a headless context redirectToPayment, once the payload is
\* fetched, fails with the manager's 'no document' error, does not complete
\* and submits no form.
C14_HeadlessFailsClearly ==
  ( /\ last.op = "redirectToPayment"
    /\ Resumed
    /\ last.cause = "json"
    /\ Headless(last.doc) )
    => /\ ~last.ok
       /\ ~last.submitted
       /\ last.form = NoForm
       /\ last.val = "NoDocument"

\* C15: when the create call resolves with a falsy response, create fails
\* with the manager's own 'no response' error (not the request layer's) and
\* writes neither id nor status, at invocation or at resolution.
C15_CreateNoResponse ==
  /\ (last.op = "create" /\ Resumed /\ last.cause = "json"
        /\ last.raw \in Falsy)
       => /\ last.ev = "throw"
          /\ last.val = "CreateNoResponse"
          /\ Heap[last.val].message = "no response"
          /\ last.idKept
          /\ last.statusKept
          /\ ~last.adopted
  /\ (last.op = "create" /\ last.ev = "invoke")
       => /\ last.idKept
          /\ last.statusKept

C15_Witness ==
  /\ last.op = "create"
  /\ last.ev = "throw"
  /\ last.cause = "json"
  /\ last.raw = Null
  /\ last.val = "CreateNoResponse"
  /\ id = "A"
  /\ status = "s1"

\* C16: a form is submitted only by redirectToPayment, once its get-hash
\* call for the id it was invoked with has answered a payload and the form
\* is built from that payload; when that call fails no form is built, none
\* is submitted and the caller gets the call's error.
C16_SubmitAfterFetch ==
  /\ last.submitted
       => /\ last.op = "redirectToPayment"
          /\ last.ev = "return"
          /\ Path(last.op) = "/payments/2c2p/get-hash"
          /\ last.cause = "json"
          /\ last.raw \in {"hash_1", "hash_2"}
          /\ last.form = BuildForm(last.raw)
          /\ last.form # NoForm
          /\ last.doc = "dom"
          /\ last.payload.application_id # NoKey
          /\ (last.conc = "alone" => last.payload.application_id = id)
  /\ (last.op = "redirectToPayment" /\ Resumed /\ last.cause # "json")
       => /\ last.ev = "throw"
          /\ last.val = last.raw
          /\ last.form = NoForm
          /\ ~last.submitted

C16_Witness ==
  /\ last.submitted
  /\ last.op = "redirectToPayment"
  /\ last.raw = "hash_1"
  /\ last.form.action = "https://pay.example/x"
  /\ last.payload.application_id = "B"
  /\ id = "B"

\* the operations that send the id and hand their response back untouched
PassingIdScoped == {"getPackages", "getPackage", "selectPackage", "get2C2PHash"}

\* C17: getPackages, getPackage, selectPackage and get2C2PHash send the
\* current id and write neither id nor status, at invocation, on success
\* or on failure; what they return is the response as it came, and a
\* status in a selectPackage response is not mirrored.
C17_PassingOpsWriteNothing ==
  last.op \in PassingIdScoped
    => /\ last.idKept
       /\ last.statusKept
       /\ ~last.adopted
       /\ last.ev = "invoke" => last.payload.application_id = id
       /\ Resumed => /\ last.ok = (last.cause = "json")
                     /\ last.val = last.raw
                     /\ status = mirrored

C17_Witness ==
  /\ last.op = "getPackage"
  /\ last.ev = "return"
  /\ last.raw = "body_B_s2"
  /\ id = "A"
  /\ status = "s1"

\* C18: no step clears status: once status is non-empty it stays non-empty,
\* a step that changes id keeps status unless that same step mirrors a
\* status, and a response whose status is missing or empty leaves status
\* as it was.
C18_StatusNeverCleared ==
  [][ /\ Truthy(status) => Truthy(status')
      /\ (id' # id /\ ~TookStatus') => status' = status
      /\ ( /\ last'.ev \in {"return", "throw"}
           /\ ~Truthy(Prop(last'.raw, "status")) ) => status' = status ]_vars

C18_Witness ==
  /\ status = "s1"
  /\ last.op = "update"
  /\ last.ev = "return"
  /\ last.raw = "body_blank"
  /\ last.arg = "B"
  /\ id = "B"

\* the payloads of the calls in flight, oldest first
Payloads(cs) == [j \in DOMAIN cs |-> cs[j].payload]

\* p without its i-th element
Without(p, i) == SubSeq(p, 1, i - 1) \o SubSeq(p, i + 1, Len(p))

\* C19: the payload of a call is fixed when the operation is invoked, with
\* the id the manager holds at that moment: no later step changes the
\* payload of a call in flight, and a call resumes with the payload it was
\* issued with.
C19_PayloadFixedAtInvocation ==
  [][ /\ last'.ev = "setId" => Payloads(calls') = Payloads(calls)
      /\ last'.ev = "invoke"
           => /\ Payloads(calls')
                   = Append(Payloads(calls), last'.payload)
              /\ last'.op \in IdScoped
                   => last'.payload.application_id = id'
      /\ last'.ev \in {"return", "throw"}
           => \E i \in DOMAIN calls :
                 /\ calls[i].payload = last'.payload
                 /\ calls[i].op = last'.op
                 /\ Payloads(calls') = Without(Payloads(calls), i) ]_vars

C19_Witness ==
  /\ last.ev = "return"
  /\ last.op = "submit"
  /\ last.payload.application_id = "A"
  /\ last.conc = "overlapped"
  /\ id = "B"
  /\ issued = 1

\* C20: when the call resolves with a null body, get, update, submit and
\* confirm fail and leave status as it was, list, getPackages, getPackage,
\* selectPackage and get2C2PHash return the null, and create alone fails
\* with 'no response'.
C20_NullBody ==
  (Resumed /\ last.cause = "json" /\ last.raw = Null)
    => /\ last.op \in {"get", "update", "submit", "confirm"}
            => /\ last.ev = "throw"
               /\ last.val = "TypeError_status"
               /\ last.statusKept
               /\ Heap[last.val].message # "no response"
       /\ last.op \in PassingIdScoped \cup {"list"}
            => /\ last.ev = "return"
               /\ last.val = Null
               /\ last.statusKept
       /\ last.op = "create"
            => /\ last.ev = "throw"
               /\ Heap[last.val].message = "no response"

C20_Witness ==
  /\ last.op = "confirm"
  /\ last.ev = "throw"
  /\ last.cause = "json"
  /\ last.raw = Null
  /\ last.val = "TypeError_status"
  /\ status = "s2"

====
